---- MODULE Spec2Model ----
(***************************************************************************)
(* Callback orchestration examples of the Asynchronous-JavaScript          *)
(* repository: runTasksInParallel (src/scaler.js 32-67) and the nested     *)
(* sequential callback chain (src/unnamed/part_000 462-480), run on the    *)
(* single-threaded event loop described in src/3.promises.md 662-670.      *)
(*                                                                         *)
(* The orchestration code is translated statement by statement.  The       *)
(* tasks are the environment: what a task passes to its completion         *)
(* callback (an error or a value) and the delay of its setTimeout are      *)
(* inputs, chosen in Init.                                                 *)
(***************************************************************************)
EXTENDS Integers, Sequences, FiniteSets, TLC

VARIABLES mode, outcome, latency, pc, nextStart, timers, now,
          completedTasks, results, calls, log

\* two calls of runTasksInParallel in one script
VARIABLES runs, rlatency, rpc, rnext, rtimers, rnow

coreVars == <<mode, outcome, latency, pc, nextStart, timers, now,
              completedTasks, results, calls, log>>

runVars == <<runs, rlatency, rpc, rnext, rtimers, rnow>>

\* the promise examples: the program, its inputs, the call stack, the timers,
\* the microtask queue, the promises, the callback invocations and the console
VARIABLES prog, pin, ppc, pstep, ptimers, micro, pnow, proms, pcalls, plog

promVars == <<prog, pin, ppc, pstep, ptimers, micro, pnow, proms, pcalls, plog>>

nonCoreVars == <<runVars, promVars>>
nonRunVars == <<coreVars, promVars>>
nonPromVars == <<coreVars, runVars>>

vars == <<coreVars, runVars, promVars>>

\* `const totalTasks = 3`
totalTasks == 3

Tasks == 1..totalTasks

\* setTimeout delays of fetchData, fetchMoreData, processData
FetchDataDelay == 1000
FetchMoreDataDelay == 500
ProcessDataDelay == 1500

Latencies == {FetchMoreDataDelay, FetchDataDelay, ProcessDataDelay}

\* JavaScript null, the error argument of a successful completion
Null == 0

\* the value task i passes to its callback on success
Value(i) == i

\* the error task i passes to its callback on failure
Reason(i) == 100 + i

Truthy_never(e) == FALSE

\* `if (error)`
Truthy(e) == e # Null

\* the arguments task i passes to its completion callback
TaskError(i) == IF outcome[i] = "err" THEN Reason(i) ELSE Null
TaskResult(i) == Value(i)

Ev(e, i) == [ev |-> e, task |-> i]

\* one invocation of a final continuation: its arguments and the time
Call(error, argc, res, t) == [error |-> error, argc |-> argc, results |-> res, at |-> t]

----------------------------------------------------------------------------
(* The event loop: timers and the call stack *)

SetTimeout_absolute(ts, i, t) == Append(ts, [task |-> i, due |-> latency[i]])

\* setTimeout(cb, delay): the callback of task i becomes due delay later
SetTimeout(ts, i, t) == Append(ts, [task |-> i, due |-> t + latency[i]])

MinDue_latest(ts) == CHOOSE d \in {ts[k].due : k \in DOMAIN ts} :
                        \A k \in DOMAIN ts : d >= ts[k].due

\* the earliest time at which a timer is due
MinDue(ts) == CHOOSE d \in {ts[k].due : k \in DOMAIN ts} :
                 \A k \in DOMAIN ts : d <= ts[k].due

NextTimer_fifo(ts) == 1

\* the timer whose callback the event loop runs next: the earliest due,
\* the earliest registered among those
NextTimer(ts) == CHOOSE k \in DOMAIN ts :
                    /\ ts[k].due = MinDue(ts)
                    /\ \A j \in DOMAIN ts : ts[j].due = MinDue(ts) => k <= j

RemoveAt_keep(ts, k) == ts

\* the timers left when the callback of timer k is taken off the queue
RemoveAt(ts, k) == SubSeq(ts, 1, k - 1) \o SubSeq(ts, k + 1, Len(ts))

StackEmpty_always(p) == TRUE

\* a queued callback runs only when the call stack is empty
StackEmpty(p) == p = "idle"

----------------------------------------------------------------------------
(* The scripts *)

ScriptTasks_eager(m) == IF m = "parallel" THEN <<1, 2, 3>> ELSE <<1, 2>>

\* the tasks the top-level script starts synchronously: all three in
\* runTasksInParallel, only fetchData in the nested chain
ScriptTasks(m) == IF m = "parallel" THEN <<1, 2, 3>> ELSE <<1>>

\* the script of the two Runs is not loaded
RunsOff ==
    /\ runs = <<>>
    /\ rlatency = <<>>
    /\ rpc = "off"
    /\ rnext = 0
    /\ rtimers = <<>>
    /\ rnow = 0

\* no promise example is loaded
PromOff ==
    /\ prog = "none"
    /\ pin = <<>>
    /\ ppc = "off"
    /\ pstep = 0
    /\ ptimers = <<>>
    /\ micro = <<>>
    /\ pnow = 0
    /\ proms = <<>>
    /\ pcalls = <<>>
    /\ plog = <<>>

Init ==
    /\ mode \in {"parallel", "sequential"}
    /\ outcome \in [Tasks -> {"ok", "err"}]
    /\ latency \in [Tasks -> Latencies]
    /\ pc = "script"
    /\ nextStart = 1
    /\ timers = <<>>
    /\ now = 0
    /\ completedTasks = 0
    /\ results = <<>>
    /\ calls = <<>>
    /\ log = <<>>
    /\ RunsOff
    /\ PromOff

\* one start call of the script: the task logs its start and sets its timer
StartTask ==
    /\ pc = "script"
    /\ nextStart <= Len(ScriptTasks(mode))
    /\ LET i == ScriptTasks(mode)[nextStart] IN
        /\ log' = Append(log, Ev("start", i))
        /\ timers' = SetTimeout(timers, i, now)
    /\ nextStart' = nextStart + 1
    /\ UNCHANGED <<mode, outcome, latency, pc, now, completedTasks, results, calls>>
    /\ UNCHANGED nonCoreVars

\* the script returns: the call stack is empty
ScriptReturn ==
    /\ pc = "script"
    /\ nextStart > Len(ScriptTasks(mode))
    /\ pc' = "idle"
    /\ UNCHANGED <<mode, outcome, latency, nextStart, timers, now,
                   completedTasks, results, calls, log>>
    /\ UNCHANGED nonCoreVars

----------------------------------------------------------------------------
(* runTasksInParallel *)

\* the state a Run's handlers read and write
RunState == [completedTasks |-> completedTasks, results |-> results,
             calls |-> calls, log |-> log]

\* the callback handed to runTasksInParallel
finalCallback(r, error, argc, res, t) ==
    [r EXCEPT !.calls = Append(@, Call(error, argc, res, t)),
              !.log = Append(@, IF Truthy(error) THEN Ev("finalError", 0)
                                                 ELSE Ev("finalResults", 0))]

AllDone_never(c) == c = totalTasks + 1

AllDone_early(c) == c >= totalTasks - 1

\* `completedTasks === totalTasks`
AllDone(c) == c = totalTasks

collect_nopush(r, result) == [r EXCEPT !.completedTasks = @ + 1]

collect_unshift(r, result) ==
    [r EXCEPT !.results = <<result>> \o @, !.completedTasks = @ + 1]

\* `results.push(result); completedTasks++`
collect(r, result) ==
    [r EXCEPT !.results = Append(@, result), !.completedTasks = @ + 1]

onError_counting(r, error, t) ==
    LET r1 == finalCallback([r EXCEPT !.log = Append(@, Ev("Error", 0))], error, 1, <<>>, t)
        r2 == [r1 EXCEPT !.completedTasks = @ + 1]
    IN IF AllDone(r2.completedTasks)
       THEN finalCallback(r2, Null, 2, r2.results, t)
       ELSE r2

onError_once(r, error, t) ==
    LET r1 == [r EXCEPT !.log = Append(@, Ev("Error", 0))]
    IN IF \E k \in DOMAIN r.calls : Truthy(r.calls[k].error)
       THEN r1
       ELSE finalCallback(r1, error, 1, <<>>, t)

onError_wrapping(r, error, t) ==
    finalCallback([r EXCEPT !.log = Append(@, Ev("Error", 0))], error + 1000, 1, <<>>, t)

\* the error branch: `console.log("Error:", error); return callback(error)`
onError(r, error, t) ==
    finalCallback([r EXCEPT !.log = Append(@, Ev("Error", 0))], error, 1, <<>>, t)

onTaskComplete(r, error, result, t) ==
    IF Truthy(error)
    THEN onError(r, error, t)
    ELSE LET r1 == collect(r, result) IN
         IF AllDone(r1.completedTasks)
         THEN finalCallback([r1 EXCEPT !.log = Append(@, Ev("AllTasksCompleted", 0))],
                            Null, 2, r1.results, t)
         ELSE r1

PendingAfter_cancel(ts, k, error) == IF Truthy(error) THEN <<>> ELSE RemoveAt(ts, k)

\* the timers still set after the callback of timer k has run: neither
\* branch of onTaskComplete clears a timer, `return callback(error)` included
PendingAfter(ts, k, error) == RemoveAt(ts, k)

\* the timer callback of a parallel task: it logs its completion and calls
\* onTaskComplete
ParallelTimer ==
    /\ mode = "parallel"
    /\ StackEmpty(pc)
    /\ timers # <<>>
    /\ LET k == NextTimer(timers)
           i == timers[k].task
           t == timers[k].due
           r == onTaskComplete([RunState EXCEPT !.log = Append(@, Ev("complete", i))],
                               TaskError(i), TaskResult(i), t)
       IN /\ now' = t
          /\ timers' = PendingAfter(timers, k, TaskError(i))
          /\ completedTasks' = r.completedTasks
          /\ results' = r.results
          /\ calls' = r.calls
          /\ log' = r.log
    /\ UNCHANGED <<mode, outcome, latency, pc, nextStart>>
    /\ UNCHANGED nonCoreVars

----------------------------------------------------------------------------
(* The nested sequential chain fetchData -> processData -> saveData -> logResult *)

logResult_noarg(r, result, t) ==
    [r EXCEPT !.calls = Append(@, Call(Null, 0, <<>>, t)),
              !.log = Append(@, Ev("logResult", 0))]

\* `logResult(result)`
logResult(r, result, t) ==
    [r EXCEPT !.calls = Append(@, Call(Null, 1, <<result>>, t)),
              !.log = Append(@, Ev("logResult", 0))]

\* the error branch of stage i: `console.log("Error ...", error)`
logError(r, i, error, t) ==
    [r EXCEPT !.calls = Append(@, Call(error, 1, <<>>, t)),
              !.log = Append(@, Ev("Error", i))]

\* the timer callback of stage i and the continuation it was given: on an
\* error the chain ends, otherwise the next stage is started, and after the
\* last stage logResult runs
SequentialTimer ==
    /\ mode = "sequential"
    /\ StackEmpty(pc)
    /\ timers # <<>>
    /\ LET k == NextTimer(timers)
           i == timers[k].task
           t == timers[k].due
           r0 == [RunState EXCEPT !.log = Append(@, Ev("complete", i))]
           rest == RemoveAt(timers, k)
       IN /\ now' = t
          /\ IF Truthy(TaskError(i))
             THEN LET r == logError(r0, i, TaskError(i), t) IN
                  /\ timers' = rest
                  /\ calls' = r.calls
                  /\ log' = r.log
             ELSE IF i < totalTasks
             THEN /\ timers' = SetTimeout(rest, i + 1, t)
                  /\ calls' = r0.calls
                  /\ log' = Append(r0.log, Ev("start", i + 1))
             ELSE LET r == logResult(r0, TaskResult(i), t) IN
                  /\ timers' = rest
                  /\ calls' = r.calls
                  /\ log' = r.log
    /\ UNCHANGED <<mode, outcome, latency, pc, nextStart, completedTasks, results>>
    /\ UNCHANGED nonCoreVars

Next ==
    \/ StartTask
    \/ ScriptReturn
    \/ ParallelTimer
    \/ SequentialTimer

Spec == Init /\ [][Next]_vars

\* the host runs the script to its end and fires every timer that is set
FairSpec == Spec /\ WF_vars(Next)

----------------------------------------------------------------------------
(* Two Runs: a script that calls runTasksInParallel twice.  Each call      *)
(* declares its own `completedTasks` and `results` (src/scaler.js 33-34).  *)

Runs == {1, 2}

\* the value and the error of task i of Run q
RunValue(q, i) == 10 * q + i
RunReason(q, i) == 100 + 10 * q + i

\* the script of the single Run is not loaded
CoreOff ==
    /\ mode = "parallel"
    /\ outcome = [i \in Tasks |-> "ok"]
    /\ latency = [i \in Tasks |-> FetchDataDelay]
    /\ pc = "off"
    /\ nextStart = 0
    /\ timers = <<>>
    /\ now = 0
    /\ completedTasks = 0
    /\ results = <<>>
    /\ calls = <<>>
    /\ log = <<>>

\* `let completedTasks = 0; const results = [];` of one call
NewRun == [completedTasks |-> 0, results |-> <<>>, calls |-> <<>>, log |-> <<>>]

InitRuns ==
    /\ CoreOff
    /\ PromOff
    /\ runs = [q \in Runs |-> NewRun]
    /\ rlatency \in [Runs -> [Tasks -> Latencies]]
    /\ rpc = "script"
    /\ rnext = 1
    /\ rtimers = <<>>
    /\ rnow = 0

\* the Run and the task of the n-th start call of the script
StartRun(n) == ((n - 1) \div totalTasks) + 1
StartIndex(n) == ((n - 1) % totalTasks) + 1

\* the variables onTaskComplete of Run q closes over
ClosureOf(rs, q) == rs[q]

StoreRun_global(rs, q, rec) ==
    [p \in Runs |-> IF p = q THEN rec
                    ELSE [rs[p] EXCEPT !.completedTasks = rec.completedTasks,
                                       !.results = rec.results]]

\* the state of the Runs after onTaskComplete of Run q has run: only the
\* variables of that call have changed
StoreRun(rs, q, rec) == [rs EXCEPT ![q] = rec]

\* one start call inside one of the two calls of runTasksInParallel
StartRunTask ==
    /\ rpc = "script"
    /\ rnext <= 2 * totalTasks
    /\ LET q == StartRun(rnext)
           i == StartIndex(rnext)
       IN /\ runs' = [runs EXCEPT ![q].log = Append(@, Ev("start", i))]
          /\ rtimers' = Append(rtimers, [run |-> q, task |-> i, due |-> rnow + rlatency[q][i]])
    /\ rnext' = rnext + 1
    /\ UNCHANGED <<rlatency, rpc, rnow>>
    /\ UNCHANGED nonRunVars

\* the script of the two Runs returns
RunsScriptReturn ==
    /\ rpc = "script"
    /\ rnext > 2 * totalTasks
    /\ rpc' = "idle"
    /\ UNCHANGED <<runs, rlatency, rnext, rtimers, rnow>>
    /\ UNCHANGED nonRunVars

\* the timer callback of a task of one of the two Runs: the task passes an
\* error or its value to the onTaskComplete of its own Run
RunTimer ==
    /\ StackEmpty(rpc)
    /\ rtimers # <<>>
    /\ \E o \in {"ok", "err"} :
        LET k == NextTimer(rtimers)
            q == rtimers[k].run
            i == rtimers[k].task
            t == rtimers[k].due
            r0 == [ClosureOf(runs, q) EXCEPT !.log = Append(@, Ev(IF o = "ok" THEN "complete" ELSE "failed", i))]
            rec == onTaskComplete(r0, IF o = "err" THEN RunReason(q, i) ELSE Null,
                                  RunValue(q, i), t)
        IN /\ runs' = StoreRun(runs, q, rec)
           /\ rtimers' = RemoveAt(rtimers, k)
           /\ rnow' = t
    /\ UNCHANGED <<rlatency, rpc, rnext>>
    /\ UNCHANGED nonRunVars

NextRuns ==
    \/ StartRunTask
    \/ RunsScriptReturn
    \/ RunTimer

SpecRuns == InitRuns /\ [][NextRuns]_vars

----------------------------------------------------------------------------
(* The promise examples: callbacks, promises and await on the event loop   *)
(* with its microtask queue (src/3.promises.md 763-793).                   *)

\* the state the statements and callbacks of an example read and write
PState == [timers |-> ptimers, micro |-> micro, proms |-> proms,
           calls |-> pcalls, log |-> plog]

\* console.log / console.error
PLog(m, e, v) == [m EXCEPT !.log = Append(@, Ev(e, v))]

\* setTimeout(cb, delay, arg)
PSetTimeout(m, cb, delay, arg, t) ==
    [m EXCEPT !.timers = Append(@, [cb |-> cb, due |-> t + delay, arg |-> arg])]

\* a promise reaction job is queued as a microtask
Enqueue(m, cb, arg) == [m EXCEPT !.micro = Append(@, [cb |-> cb, arg |-> arg])]

PromiseNames == {"P", "R", "F", "G", "S", "A1", "A2", "A3", "ALL", "S1", "S2", "S3"}

\* `new Promise(...)` before its executor has settled it
Pending == [state |-> "pending", value |-> 0, settles |-> 0, waiter |-> "none"]

\* Variant: a promise that every resolve/reject call settles anew
Settle_again(m, name, kind, v) ==
    LET q == [m.proms[name] EXCEPT !.state = kind, !.value = v, !.settles = @ + 1]
        m1 == [m EXCEPT !.proms[name] = q]
    IN IF q.waiter # "none" THEN Enqueue(m1, q.waiter, 0) ELSE m1

\* resolve(v) / reject(v): only the first call settles the promise; the
\* handler waiting on it is queued as a microtask
Settle(m, name, kind, v) ==
    IF m.proms[name].state # "pending" THEN m
    ELSE LET q == [m.proms[name] EXCEPT !.state = kind, !.value = v, !.settles = @ + 1]
             m1 == [m EXCEPT !.proms[name] = q]
         IN IF q.waiter # "none" THEN Enqueue(m1, q.waiter, 0) ELSE m1

\* .then(cb) / .catch(cb) / await: the handler runs as a microtask once the
\* promise is settled
Then(m, name, cb) ==
    IF m.proms[name].state = "pending"
    THEN [m EXCEPT !.proms[name].waiter = cb]
    ELSE Enqueue(m, cb, 0)

\* 'Error: Argument must be non-negative'
ArgumentError == 400

\* the delay of asyncFunctionWithCallback
AsyncDelay == 1000

\* the delay of the timer of the event-loop example
ZeroDelay == 0

\* `arg * 2` of the success message
ResultFor(arg) == arg * 2

\* asyncFunctionWithCallback(arg, callback): only sets the timer
asyncFunctionWithCallback(m, arg, t) == PSetTimeout(m, "asyncBody", AsyncDelay, arg, t)

\* one invocation of a callback: `callback(error)` or `callback(null, result)`
Invocation(error, argc, result, t) ==
    [error |-> error, argc |-> argc, result |-> result, at |-> t]

\* the callback of the usage example: console.error(error) or console.log(result)
userCallback(m, error, result) ==
    IF Truthy(error) THEN PLog(m, "console.error", error)
                     ELSE PLog(m, "console.log", result)

promisifyCallback_swapped(m, error, result) ==
    IF Truthy(error) THEN Settle(m, "P", "fulfilled", error)
                     ELSE Settle(m, "P", "rejected", result)

\* the callback promisifiedAsyncFunction passes: reject(error) or resolve(result)
promisifyCallback(m, error, result) ==
    IF Truthy(error) THEN Settle(m, "P", "rejected", error)
                     ELSE Settle(m, "P", "fulfilled", result)

\* the callback asyncFunctionWithCallback was given in program g
Callback(g, m, error, result) ==
    IF g = "callbackFn" THEN userCallback(m, error, result)
                        ELSE promisifyCallback(m, error, result)

asyncBody_nonpositive(g, m, arg, t) ==
    IF arg <= 0
    THEN Callback(g, [m EXCEPT !.calls = Append(@, Invocation(ArgumentError, 1, 0, t))],
                  ArgumentError, 0)
    ELSE Callback(g, [m EXCEPT !.calls = Append(@, Invocation(Null, 2, ResultFor(arg), t))],
                  Null, ResultFor(arg))

\* the timer callback of asyncFunctionWithCallback
asyncBody(g, m, arg, t) ==
    IF arg < 0
    THEN Callback(g, [m EXCEPT !.calls = Append(@, Invocation(ArgumentError, 1, 0, t))],
                  ArgumentError, 0)
    ELSE Callback(g, [m EXCEPT !.calls = Append(@, Invocation(Null, 2, ResultFor(arg), t))],
                  Null, ResultFor(arg))

\* main() after `await promisifiedAsyncFunction(arg)`: the success branch or
\* the catch branch
mainResume(m) ==
    IF m.proms["P"].state = "fulfilled"
    THEN PLog(m, "main.log", m.proms["P"].value)
    ELSE PLog(m, "main.catch", m.proms["P"].value)

----------------------------------------------------------------------------
(* The fetch / process / save / log pipeline in its three versions *)

\* the delay of every stage
PipelineDelay == 1000

\* `data` as fetched, and after `data.processed = true`
RawData == 0
ProcessedData == 1

\* "Success", the result of saveData
SuccessResult == 200

\* the error stage i reports when it fails
StageError(i) == 500 + i

\* `function logResult(result)`
pipelineLogResult(m, result) == PLog(m, "Operation result", result)

(* nested callbacks *)

\* fetchData(callback), processData(data, callback), saveData(data, callback)
fetchDataCb(m, t) == PSetTimeout(m, "fetchTimer", PipelineDelay, 0, t)
processDataCb(m, data, t) == PSetTimeout(m, "processTimer", PipelineDelay, data, t)
saveDataCb(m, data, t) == PSetTimeout(m, "saveTimer", PipelineDelay, data, t)

\* the callback given to saveData
nestedAfterSave(m, error, result) ==
    IF Truthy(error) THEN PLog(m, "Error saving data", error)
                     ELSE pipelineLogResult(m, result)

\* the callback given to processData
nestedAfterProcess(m, error, data, t) ==
    IF Truthy(error) THEN PLog(m, "Error processing data", error)
                     ELSE saveDataCb(m, data, t)

nestedAfterFetch_continue(m, error, data, t) ==
    processDataCb(IF Truthy(error) THEN PLog(m, "Error fetching data", error) ELSE m, data, t)

\* the callback given to fetchData
nestedAfterFetch(m, error, data, t) ==
    IF Truthy(error) THEN PLog(m, "Error fetching data", error)
                     ELSE processDataCb(m, data, t)

\* the timer callbacks of the three tasks
fetchTimerCb(m, in, t) ==
    IF in.out[1] = "err" THEN nestedAfterFetch(m, StageError(1), 0, t)
    ELSE nestedAfterFetch(PLog(m, "Data fetched", 0), Null, RawData, t)

processTimerCb(m, data, in, t) ==
    IF in.out[2] = "err" THEN nestedAfterProcess(m, StageError(2), 0, t)
    ELSE nestedAfterProcess(PLog(m, "Processing data", data), Null, ProcessedData, t)

saveTimerCb(m, data, in) ==
    IF in.out[3] = "err" THEN nestedAfterSave(m, StageError(3), 0)
    ELSE nestedAfterSave(PLog(m, "Data saved", data), Null, SuccessResult)

(* the tasks returning promises *)

\* fetchData(), processData(data), saveData(data): the promises F, G, S
fetchData(m, t) == PSetTimeout(m, "fetchTimer", PipelineDelay, 0, t)
processData(m, data, t) == PSetTimeout(m, "processTimer", PipelineDelay, data, t)
saveData(m, data, t) == PSetTimeout(m, "saveTimer", PipelineDelay, data, t)

fetchTimer(m, in) ==
    IF in.out[1] = "err" THEN Settle(m, "F", "rejected", StageError(1))
    ELSE Settle(PLog(m, "Data fetched", 0), "F", "fulfilled", RawData)

processTimer(m, data, in) ==
    IF in.out[2] = "err" THEN Settle(m, "G", "rejected", StageError(2))
    ELSE Settle(PLog(m, "Processing data", data), "G", "fulfilled", ProcessedData)

saveTimer(m, data, in) ==
    IF in.out[3] = "err" THEN Settle(m, "S", "rejected", StageError(3))
    ELSE Settle(PLog(m, "Data saved", data), "S", "fulfilled", SuccessResult)

\* `.catch((error) => console.log("An error occurred:", error))`
catchHandler(m, error) == PLog(m, "An error occurred", error)

(* fetchData().then(processData).then(saveData).then(logResult).catch(...) *)

thenProcess(m, t) ==
    IF m.proms["F"].state = "rejected" THEN catchHandler(m, m.proms["F"].value)
    ELSE Then(processData(m, m.proms["F"].value, t), "G", "thenSave")

thenSave(m, t) ==
    IF m.proms["G"].state = "rejected" THEN catchHandler(m, m.proms["G"].value)
    ELSE Then(saveData(m, m.proms["G"].value, t), "S", "thenLog")

thenLog(m) ==
    IF m.proms["S"].state = "rejected" THEN catchHandler(m, m.proms["S"].value)
    ELSE pipelineLogResult(m, m.proms["S"].value)

(* async function runTasks() with try / catch *)

await1(m, t) ==
    IF m.proms["F"].state = "rejected" THEN catchHandler(m, m.proms["F"].value)
    ELSE Then(processData(m, m.proms["F"].value, t), "G", "await2")

await2_noawait(m, t) ==
    IF m.proms["G"].state = "rejected" THEN catchHandler(m, m.proms["G"].value)
    ELSE pipelineLogResult(saveData(m, m.proms["G"].value, t), SuccessResult)

await2(m, t) ==
    IF m.proms["G"].state = "rejected" THEN catchHandler(m, m.proms["G"].value)
    ELSE Then(saveData(m, m.proms["G"].value, t), "S", "await3")

await3(m) ==
    IF m.proms["S"].state = "rejected" THEN catchHandler(m, m.proms["S"].value)
    ELSE pipelineLogResult(m, m.proms["S"].value)

----------------------------------------------------------------------------
(* The sequential callback example: fetchData, processData and saveData    *)
(* chained by callbacks without an error argument                          *)

\* the delay of each of the three tasks
SequentialDelay == 1000

\* `callback(data)`, `callback(processedData)`, `callback()`: the invocation
\* of the callback a task was given, with its argument count
taskCallback(m, argc, data, t) ==
    [m EXCEPT !.calls = Append(@, Invocation(Null, argc, data, t))]

\* fetchData(callback), processData(data, callback), saveData(processedData,
\* callback): each logs its start and sets its timer
seqFetchData(m, t) ==
    PSetTimeout(PLog(m, "Fetching data...", 0), "seqFetchTimer", SequentialDelay, 0, t)
seqProcessData(m, data, t) ==
    PSetTimeout(PLog(m, "Processing data...", 0), "seqProcessTimer", SequentialDelay, data, t)
seqSaveData(m, data, t) ==
    PSetTimeout(PLog(m, "Saving data...", 0), "seqSaveTimer", SequentialDelay, data, t)

\* the callback given to saveData
seqAfterSave(m) == PLog(m, "All tasks completed.", 0)

\* the callback given to processData
seqAfterProcess(m, processedData, t) == seqSaveData(m, processedData, t)

seqAfterFetch_both(m, data, t) == seqSaveData(seqProcessData(m, data, t), data, t)

\* the callback given to fetchData
seqAfterFetch(m, data, t) == seqProcessData(m, data, t)

\* the timer callbacks of the three tasks
seqFetchTimer(m, t) ==
    seqAfterFetch(taskCallback(PLog(m, "Data fetched", RawData), 1, RawData, t), RawData, t)

seqProcessTimer(m, data, t) ==
    seqAfterProcess(taskCallback(PLog(m, "Data processed", ProcessedData), 1, ProcessedData, t),
                    ProcessedData, t)

seqSaveTimer(m, processedData, t) ==
    seqAfterSave(taskCallback(PLog(m, "Data saved", processedData), 0, 0, t))

----------------------------------------------------------------------------
(* async function processSteps() with try / catch: three awaited promises, *)
(* the second of which rejects                                             *)

Steps == 1..3

\* the delays of the timers of the three steps
StepDelay(i) == CASE i = 1 -> 1000 [] i = 2 -> 2000 [] i = 3 -> 1500

StepName(i) == CASE i = 1 -> "S1" [] i = 2 -> "S2" [] i = 3 -> "S3"

\* "Step 1 completed", "Step 3 completed" and "Step 2 failed"
StepCompleted(i) == 80 + i
Step2Failed == 802

\* `new Promise(... => setTimeout(resolve or reject, delay, message))` of step i
stepPromise(m, i, t) == PSetTimeout(m, "stepTimer", StepDelay(i), i, t)

\* the timer callback of step i: reject for step 2, resolve for the others
stepTimer(m, i) ==
    IF i = 2 THEN Settle(m, StepName(2), "rejected", Step2Failed)
    ELSE Settle(m, StepName(i), "fulfilled", StepCompleted(i))

\* `catch (error) { console.log(error) }`
stepCatch(m, error) == PLog(m, "catch", error)

\* processSteps() up to its first await
processSteps(m, t) == Then(stepPromise(m, 1, t), StepName(1), "afterStep1")

\* processSteps() resumed after `await` of step 1: console.log(step1), then
\* the promise of step 2 is created and awaited
afterStep1(m, t) ==
    IF m.proms["S1"].state = "rejected" THEN stepCatch(m, m.proms["S1"].value)
    ELSE Then(stepPromise(PLog(m, "step1", m.proms["S1"].value), 2, t),
              StepName(2), "afterStep2")

afterStep2_ignoring(m, t) ==
    Then(stepPromise(PLog(m, "step2", m.proms["S2"].value), 3, t),
         StepName(3), "afterStep3")

\* resumed after `await` of step 2
afterStep2(m, t) ==
    IF m.proms["S2"].state = "rejected" THEN stepCatch(m, m.proms["S2"].value)
    ELSE Then(stepPromise(PLog(m, "step2", m.proms["S2"].value), 3, t),
              StepName(3), "afterStep3")

\* resumed after `await` of step 3
afterStep3(m) ==
    IF m.proms["S3"].state = "rejected" THEN stepCatch(m, m.proms["S3"].value)
    ELSE PLog(m, "step3", m.proms["S3"].value)

----------------------------------------------------------------------------
(* Promise.all([promise1, promise2, promise3]).then(...).catch(...) *)

Elements == 1..3

\* the delays of the timers of the three promises
AllDelays == {1000, 1500, 2000}

ElementName(i) == CASE i = 1 -> "A1" [] i = 2 -> "A2" [] i = 3 -> "A3"
ElementJob(i) == CASE i = 1 -> "all1" [] i = 2 -> "all2" [] i = 3 -> "all3"

\* 'First', 'Second', 'Third' and the rejection reasons
ElementValue(i) == 70 + i
ElementError(i) == 700 + i

\* the promise Promise.all returns: its list of values, one slot per input
\* promise, and the number of input promises not yet fulfilled
AllPending == [state |-> "pending", value |-> 0, settles |-> 0, waiter |-> "none",
               values |-> [i \in Elements |-> 0], remaining |-> 3]

\* `new Promise((resolve, reject) => setTimeout(resolve or reject, delay, value))`
newTimedPromise(m, i, in, t) == PSetTimeout(m, "settleTimer", in.lat[i], i, t)

\* the timer callback of promise i: resolve(value) or reject(reason)
settleTimer(m, i, in) ==
    IF in.out[i] = "err" THEN Settle(m, ElementName(i), "rejected", ElementError(i))
    ELSE Settle(m, ElementName(i), "fulfilled", ElementValue(i))

\* Promise.all(list): it waits on every promise of the list
PromiseAll(m) ==
    Then(Then(Then(m, "A1", ElementJob(1)), "A2", ElementJob(2)), "A3", ElementJob(3))

allElement_push(m, i) ==
    LET e == m.proms[ElementName(i)]
        a == m.proms["ALL"]
    IN IF e.state = "rejected" THEN Settle(m, "ALL", "rejected", e.value)
       ELSE LET k == 4 - a.remaining
                vs == [a.values EXCEPT ![k] = e.value]
                m1 == [m EXCEPT !.proms["ALL"].values = vs,
                                !.proms["ALL"].remaining = a.remaining - 1]
            IN IF a.remaining - 1 = 0 THEN Settle(m1, "ALL", "fulfilled", vs) ELSE m1

\* the reaction of Promise.all to input promise i: a rejection rejects the
\* result with that reason; a value is stored at position i and, when it was
\* the last one missing, the result is fulfilled with the list
allElement(m, i) ==
    LET e == m.proms[ElementName(i)]
        a == m.proms["ALL"]
    IN IF e.state = "rejected" THEN Settle(m, "ALL", "rejected", e.value)
       ELSE LET vs == [a.values EXCEPT ![i] = e.value]
                m1 == [m EXCEPT !.proms["ALL"].values = vs,
                                !.proms["ALL"].remaining = a.remaining - 1]
            IN IF a.remaining - 1 = 0 THEN Settle(m1, "ALL", "fulfilled", vs) ELSE m1

\* `.then((values) => console.log(values)).catch((error) => console.error(error))`
allSettled(m, t) ==
    LET a == m.proms["ALL"] IN
    IF a.state = "fulfilled"
    THEN PLog([m EXCEPT !.calls = Append(@, Invocation(Null, 1, a.value, t))], "then", 0)
    ELSE PLog([m EXCEPT !.calls = Append(@, Invocation(a.value, 1, <<>>, t))], "catch", a.value)

----------------------------------------------------------------------------
(* The examples and the event loop that runs them *)

Programs == {"callbackFn", "promisified", "eventLoop",
             "nested", "promiseChain", "asyncAwait", "promiseAll",
             "sequentialCb", "processSteps"}

Pipelines == {"nested", "promiseChain", "asyncAwait"}

Stages == 1..3

Args == {-2, -1, 0, 1, 5}

\* the inputs of program g
Inputs(g) ==
    CASE g \in {"callbackFn", "promisified"} -> {[arg |-> a] : a \in Args}
      [] g \in Pipelines -> {[arg |-> 0, out |-> o] : o \in [Stages -> {"ok", "err"}]}
      [] g = "promiseAll" ->
            {[arg |-> 0, out |-> o, lat |-> l] :
                o \in [Elements -> {"ok", "err"}], l \in [Elements -> AllDelays]}
      [] OTHER -> {[arg |-> 0]}

\* the number of statements of the script of program g
ScriptLen(g) ==
    CASE g = "eventLoop" -> 4
      [] g = "promiseAll" -> 4
      [] OTHER -> 1

\* statement n of the script of program g
Statement(g, n, m, in, t) ==
    CASE g = "callbackFn" -> asyncFunctionWithCallback(m, in.arg, t)
      [] g = "promisified" -> Then(asyncFunctionWithCallback(m, in.arg, t), "P", "mainResume")
      [] g = "nested" -> fetchDataCb(m, t)
      [] g = "promiseChain" -> Then(fetchData(m, t), "F", "thenProcess")
      [] g = "asyncAwait" -> Then(fetchData(m, t), "F", "await1")
      [] g = "sequentialCb" -> seqFetchData(m, t)
      [] g = "processSteps" -> processSteps(m, t)
      [] g = "promiseAll" /\ n \in Elements -> newTimedPromise(m, n, in, t)
      [] g = "promiseAll" /\ n = 4 -> Then(PromiseAll(m), "ALL", "allSettled")
      [] g = "eventLoop" /\ n = 1 -> PLog(m, "Start", 0)
      [] g = "eventLoop" /\ n = 2 -> PSetTimeout(m, "timeoutCallback", ZeroDelay, 0, t)
      [] g = "eventLoop" /\ n = 3 -> Then(Settle(m, "R", "fulfilled", 0), "R", "promiseCallback")
      [] g = "eventLoop" /\ n = 4 -> PLog(m, "End", 0)

\* the body of the queued callback cb
RunCallback(g, cb, arg, m, t) ==
    CASE cb = "asyncBody" -> asyncBody(g, m, arg, t)
      [] cb = "fetchTimer" /\ g = "nested" -> fetchTimerCb(m, pin, t)
      [] cb = "processTimer" /\ g = "nested" -> processTimerCb(m, arg, pin, t)
      [] cb = "saveTimer" /\ g = "nested" -> saveTimerCb(m, arg, pin)
      [] cb = "fetchTimer" /\ g # "nested" -> fetchTimer(m, pin)
      [] cb = "processTimer" /\ g # "nested" -> processTimer(m, arg, pin)
      [] cb = "saveTimer" /\ g # "nested" -> saveTimer(m, arg, pin)
      [] cb = "thenProcess" -> thenProcess(m, t)
      [] cb = "thenSave" -> thenSave(m, t)
      [] cb = "thenLog" -> thenLog(m)
      [] cb = "await1" -> await1(m, t)
      [] cb = "await2" -> await2(m, t)
      [] cb = "await3" -> await3(m)
      [] cb = "seqFetchTimer" -> seqFetchTimer(m, t)
      [] cb = "seqProcessTimer" -> seqProcessTimer(m, arg, t)
      [] cb = "seqSaveTimer" -> seqSaveTimer(m, arg, t)
      [] cb = "stepTimer" -> stepTimer(m, arg)
      [] cb = "afterStep1" -> afterStep1(m, t)
      [] cb = "afterStep2" -> afterStep2(m, t)
      [] cb = "afterStep3" -> afterStep3(m)
      [] cb = "settleTimer" -> settleTimer(m, arg, pin)
      [] cb = "all1" -> allElement(m, 1)
      [] cb = "all2" -> allElement(m, 2)
      [] cb = "all3" -> allElement(m, 3)
      [] cb = "allSettled" -> allSettled(m, t)
      [] cb = "mainResume" -> mainResume(m)
      [] cb = "timeoutCallback" -> PLog(m, "Timeout callback", 0)
      [] cb = "promiseCallback" -> PLog(m, "Promise callback", 0)

InitProm ==
    /\ CoreOff
    /\ RunsOff
    /\ prog \in Programs
    /\ pin \in Inputs(prog)
    /\ ppc = "script"
    /\ pstep = 1
    /\ ptimers = <<>>
    /\ micro = <<>>
    /\ pnow = 0
    /\ proms = [n \in PromiseNames |-> IF n = "ALL" THEN AllPending ELSE Pending]
    /\ pcalls = <<>>
    /\ plog = <<>>

\* the variables after a statement or a callback has run
Becomes(m) ==
    /\ ptimers' = m.timers
    /\ micro' = m.micro
    /\ proms' = m.proms
    /\ pcalls' = m.calls
    /\ plog' = m.log

\* the script runs its next statement
PStatement ==
    /\ ppc = "script"
    /\ pstep <= ScriptLen(prog)
    /\ Becomes(Statement(prog, pstep, PState, pin, pnow))
    /\ pstep' = pstep + 1
    /\ UNCHANGED <<prog, pin, ppc, pnow>>
    /\ UNCHANGED nonPromVars

\* the script returns: the call stack is empty
PReturn ==
    /\ ppc = "script"
    /\ pstep > ScriptLen(prog)
    /\ ppc' = "idle"
    /\ UNCHANGED <<prog, pin, pstep, ptimers, micro, pnow, proms, pcalls, plog>>
    /\ UNCHANGED nonPromVars

\* the event loop runs the first microtask
PMicrotask ==
    /\ StackEmpty(ppc)
    /\ micro # <<>>
    /\ LET j == Head(micro)
           m == [PState EXCEPT !.micro = Tail(micro)]
       IN Becomes(RunCallback(prog, j.cb, j.arg, m, pnow))
    /\ UNCHANGED <<prog, pin, ppc, pstep, pnow>>
    /\ UNCHANGED nonPromVars

TimerMayRun_anytime(mq) == TRUE

\* timer callbacks wait until the microtask queue is empty
TimerMayRun(mq) == mq = <<>>

\* the event loop runs the callback of the next timer
PTimer ==
    /\ StackEmpty(ppc)
    /\ TimerMayRun(micro)
    /\ ptimers # <<>>
    /\ LET k == NextTimer(ptimers)
           j == ptimers[k]
           m == [PState EXCEPT !.timers = RemoveAt(ptimers, k)]
       IN /\ Becomes(RunCallback(prog, j.cb, j.arg, m, j.due))
          /\ pnow' = j.due
    /\ UNCHANGED <<prog, pin, ppc, pstep>>
    /\ UNCHANGED nonPromVars

NextProm ==
    \/ PStatement
    \/ PReturn
    \/ PMicrotask
    \/ PTimer

SpecProm == InitProm /\ [][NextProm]_vars

----------------------------------------------------------------------------
(* Observations on the log and on the calls of the final continuation *)

\* the position of the first log entry of event e of task i, 0 if none
Pos(e, i) == IF \E k \in DOMAIN log : log[k] = Ev(e, i)
             THEN CHOOSE k \in DOMAIN log :
                    /\ log[k] = Ev(e, i)
                    /\ \A j \in DOMAIN log : log[j] = Ev(e, i) => k <= j
             ELSE 0

Started == {i \in Tasks : Pos("start", i) # 0}
Completed == {i \in Tasks : Pos("complete", i) # 0}
InFlight == {timers[k].task : k \in DOMAIN timers}

ErrorCalls == {k \in DOMAIN calls : Truthy(calls[k].error)}
SuccessCalls == {k \in DOMAIN calls : calls[k].error = Null}

Finished == pc = "idle" /\ timers = <<>>

InputOrder == [i \in Tasks |-> Value(i)]

----------------------------------------------------------------------------
(* Claims *)

\* C1: in parallel mode the final continuation is invoked at most once per
\* Run, whatever the outcomes of the tasks and their completion order.
C1_AtMostOnce == mode = "parallel" => Len(calls) <= 1

\* C2: in parallel mode, when every task succeeds, the results handed to the
\* final continuation hold the value of task i at position i, for every
\* completion order.
C2_OriginalOrder ==
    mode = "parallel" =>
        \A k \in SuccessCalls : calls[k].results = InputOrder

\* C3: in parallel mode, when tasks fail, the final continuation receives
\* exactly one error, that of the failing task that completes first; later
\* failures and successes are not reported.
C3_OneError ==
    mode = "parallel" =>
        \A k \in ErrorCalls :
            /\ k = 1
            /\ \E i \in Tasks :
                /\ calls[k].error = Reason(i)
                /\ \A j \in Completed :
                      outcome[j] = "err" => Pos("complete", i) <= Pos("complete", j)

\* C4: when the script runs to its end and every started task invokes its
\* completion callback, a parallel Run eventually invokes the final
\* continuation.
C4_EventuallyCalled == (mode = "parallel") ~> (calls # <<>>)

C4_Witness == mode = "parallel" /\ Finished /\ calls # <<>>

\* C5: in parallel mode a success outcome is delivered only when every task
\* has completed successfully: the counter equals the task count, no task
\* is pending, and the results carry one value per task.
C5_SuccessOnlyWhenAllDone ==
    mode = "parallel" =>
        \A k \in SuccessCalls :
            /\ completedTasks = totalTasks
            /\ InFlight = {}
            /\ Completed = Tasks
            /\ \A i \in Tasks : outcome[i] = "ok"
            /\ Len(calls[k].results) = totalTasks
            /\ {calls[k].results[j] : j \in 1..Len(calls[k].results)}
                  = {Value(i) : i \in Tasks}

C5_Witness == mode = "parallel" /\ SuccessCalls # {}

\* C6: in parallel mode no task completion is processed while some task of
\* the Run has not been started.
C6_AllStartedFirst ==
    mode = "parallel" =>
        ((Completed # {} \/ completedTasks > 0 \/ calls # <<>>) => Started = Tasks)

C6_Witness == mode = "parallel" /\ Completed # {} /\ InFlight # {}

\* C7: in parallel mode an error is delivered without results, and a Run that
\* delivered an error never delivers the collected values.
C7_NoResultsOnFailure ==
    mode = "parallel" =>
        /\ \A k \in ErrorCalls : calls[k].argc = 1 /\ calls[k].results = <<>>
        /\ ErrorCalls # {} => SuccessCalls = {}

C7_Witness ==
    mode = "parallel" /\ ErrorCalls # {} /\ results # <<>> /\ Finished

\* the scenario of C8: task 1 succeeds after 1000, task 2 fails after 500
C8_Scenario ==
    /\ mode = "parallel"
    /\ outcome[1] = "ok" /\ latency[1] = FetchDataDelay
    /\ outcome[2] = "err" /\ latency[2] = FetchMoreDataDelay

\* C8: with a first task succeeding at 1000 and a second task failing at 500,
\* the final continuation receives the second task's error at 500, before the
\* completion of the first task is processed.
C8_FailureReportedAtOnce ==
    C8_Scenario =>
        /\ Pos("complete", 2) # 0 =>
              /\ calls # <<>>
              /\ calls[1] = Call(Reason(2), 1, <<>>, FetchMoreDataDelay)
        /\ Pos("complete", 1) # 0 =>
              /\ Pos("finalError", 0) # 0
              /\ Pos("finalError", 0) < Pos("complete", 1)

C8_Witness ==
    /\ C8_Scenario
    /\ calls # <<>>
    /\ 1 \in InFlight
    /\ now = FetchMoreDataDelay

\* C10: in sequential mode at most one task is in flight, and task i+1 is
\* started only after task i has completed.
C10_OneInFlight ==
    mode = "sequential" =>
        /\ Len(timers) <= 1
        /\ Cardinality(Started \ Completed) <= 1
        /\ \A i \in Tasks :
              (i + 1 \in Started) =>
                  /\ i \in Completed
                  /\ Pos("complete", i) < Pos("start", i + 1)

C10_Witness == mode = "sequential" /\ InFlight = {2} /\ Completed = {1}

\* the tasks that fail, and the first of them in input order
Failing == {i \in Tasks : outcome[i] = "err"}
FirstFailing == CHOOSE f \in Failing : \A g \in Failing : f <= g

\* C11: in sequential mode with a failing task, the Run halts at the first
\* failing task in input order: no later task is ever started, and when an
\* error is reported it is that task's error, every task up to it having
\* been started and completed.
C11_HaltsAtFirstFailure ==
    (mode = "sequential" /\ Failing # {}) =>
        /\ Started \subseteq 1..FirstFailing
        /\ SuccessCalls = {}
        /\ calls # <<>> =>
              /\ Len(calls) = 1
              /\ calls[1].error = Reason(FirstFailing)
              /\ Started = 1..FirstFailing
              /\ Completed = 1..FirstFailing
              /\ timers = <<>>
        /\ Finished => calls # <<>>

C11_Witness ==
    /\ mode = "sequential"
    /\ Failing = {2, 3}
    /\ calls # <<>>
    /\ Finished

RECURSIVE FailedReasons(_)
FailedReasons(l) ==
    IF l = <<>> THEN <<>>
    ELSE LET e == l[Len(l)]
             front == FailedReasons(SubSeq(l, 1, Len(l) - 1))
         IN IF e.ev = "complete" /\ outcome[e.task] = "err"
            THEN Append(front, TaskError(e.task))
            ELSE front

\* the error arguments of the calls of the final continuation, in call order
RECURSIVE ReportedErrors(_)
ReportedErrors(cs) ==
    IF cs = <<>> THEN <<>>
    ELSE LET c == cs[Len(cs)]
             front == ReportedErrors(SubSeq(cs, 1, Len(cs) - 1))
         IN IF Truthy(c.error) THEN Append(front, c.error) ELSE front

\* C14: the error value the final continuation receives is the very value the
\* failing task passed to its completion callback.
C14_ReasonVerbatim == ReportedErrors(calls) = FailedReasons(log)

C14_Witness == mode = "parallel" /\ Len(ReportedErrors(calls)) = 2

\* the scenario of C15: three succeeding tasks with latencies 1000, 500, 1500
C15_Scenario ==
    /\ Failing = {}
    /\ latency[1] = FetchDataDelay
    /\ latency[2] = FetchMoreDataDelay
    /\ latency[3] = ProcessDataDelay

\* C15: in that scenario a parallel Run invokes the final continuation at
\* time 1500, the maximum latency, and a sequential Run at time 3000, the
\* sum of the latencies; neither invokes it earlier.
C15_CompletionTimes ==
    C15_Scenario =>
        /\ \A k \in DOMAIN calls :
              calls[k].at = (IF mode = "parallel"
                             THEN ProcessDataDelay
                             ELSE FetchDataDelay + FetchMoreDataDelay + ProcessDataDelay)
        /\ Finished =>
              /\ Len(calls) = 1
              /\ now = calls[1].at
              /\ now = (IF mode = "parallel" THEN 1500 ELSE 3000)

C15_Witness ==
    C15_Scenario /\ mode = "sequential" /\ calls # <<>> /\ now = 3000

\* the Run whose task completion the event loop processes next
NextRun == rtimers[NextTimer(rtimers)].run

\* the values and errors the tasks of Run q produce
OwnValues(q) == {RunValue(q, i) : i \in Tasks}
OwnReasons(q) == {RunReason(q, i) : i \in Tasks}

\* the number of log entries of Run q for event e
CountEv(q, e) == Cardinality({k \in DOMAIN runs[q].log : runs[q].log[k].ev = e})

\* a task completion changes the counter, the results and the calls of its
\* own Run only
OwnRunStep ==
    [][rpc = "idle" =>
          \A q \in Runs : runs'[q] # runs[q] => (rtimers # <<>> /\ q = NextRun)]_vars

\* the counter and the results of a Run count and hold the successful
\* completions of its own tasks, and its final continuation receives only
\* its own values and errors
OwnStateOnly ==
    rpc # "off" =>
        \A q \in Runs :
            /\ runs[q].completedTasks = CountEv(q, "complete")
            /\ Len(runs[q].results) = runs[q].completedTasks
            /\ \A j \in DOMAIN runs[q].results : runs[q].results[j] \in OwnValues(q)
            /\ \A k \in DOMAIN runs[q].calls :
                  /\ \A j \in DOMAIN runs[q].calls[k].results :
                        runs[q].calls[k].results[j] \in OwnValues(q)
                  /\ Truthy(runs[q].calls[k].error) =>
                        runs[q].calls[k].error \in OwnReasons(q)
                  /\ runs[q].calls[k].error = Null =>
                        CountEv(q, "complete") = totalTasks

\* C13: with two parallel Runs and interleaved completions, a task completion
\* of one Run never changes the counter or the results of the other, and each
\* final continuation receives only values produced by its own tasks.
C13_NoInterference == []OwnStateOnly /\ OwnRunStep

\* both Runs have delivered their results and their completions interleaved
C13_Witness ==
    /\ rpc = "idle"
    /\ rtimers = <<>>
    /\ \A q \in Runs : Len(runs[q].calls) = 1 /\ runs[q].calls[1].error = Null
    /\ runs[1].calls[1].at > rlatency[2][1]
    /\ runs[2].calls[1].at > rlatency[1][3]

----------------------------------------------------------------------------
(* Claims about the promise examples *)

\* the example has run to its end
PFinished == ppc = "idle" /\ micro = <<>> /\ ptimers = <<>>

IsPrefix(a, b) == Len(a) <= Len(b) /\ a = SubSeq(b, 1, Len(a))

\* the console entries of event e
PCount(e) == Cardinality({k \in DOMAIN plog : plog[k].ev = e})

\* C16: asyncFunctionWithCallback(arg, callback) invokes callback exactly
\* once, after the call has returned: with the error alone when arg < 0, with
\* null and the result for arg * 2 when arg >= 0.
C16_CallbackOnce ==
    prog \in {"callbackFn", "promisified"} =>
        /\ Len(pcalls) <= 1
        /\ pcalls # <<>> =>
              /\ ppc = "idle"
              /\ pin.arg < 0 => pcalls[1] = Invocation(ArgumentError, 1, 0, AsyncDelay)
              /\ pin.arg >= 0 => pcalls[1] = Invocation(Null, 2, 2 * pin.arg, AsyncDelay)
        /\ PFinished => Len(pcalls) = 1
        /\ prog = "callbackFn" =>
              /\ PCount("console.error") = (IF pcalls # <<>> /\ pin.arg < 0 THEN 1 ELSE 0)
              /\ PCount("console.log") = (IF pcalls # <<>> /\ pin.arg >= 0 THEN 1 ELSE 0)

C16_Witness ==
    prog = "callbackFn" /\ pin.arg = 0 /\ pcalls # <<>> /\ PFinished

\* C17: the promise of promisifiedAsyncFunction(arg) settles exactly once; it
\* is rejected with the callback's error exactly when the callback reports an
\* error (arg < 0) and fulfilled with the callback's result otherwise; in
\* main() exactly one of the success branch and the catch branch runs.
C17_PromisifiedAgrees ==
    prog = "promisified" =>
        LET P == proms["P"] IN
        /\ P.settles <= 1
        /\ P.settles = Len(pcalls)
        /\ PFinished => P.settles = 1
        /\ pcalls # <<>> =>
              /\ (P.state = "rejected") = Truthy(pcalls[1].error)
              /\ (P.state = "rejected") = (pin.arg < 0)
              /\ P.state = "rejected" => P.value = pcalls[1].error
              /\ P.state # "rejected" =>
                    P.state = "fulfilled" /\ P.value = pcalls[1].result
        /\ PCount("main.log") + PCount("main.catch") <= 1
        /\ PFinished =>
              /\ PCount("main.log") = (IF pin.arg < 0 THEN 0 ELSE 1)
              /\ PCount("main.catch") = (IF pin.arg < 0 THEN 1 ELSE 0)
              /\ plog = <<Ev(IF pin.arg < 0 THEN "main.catch" ELSE "main.log", P.value)>>

C17_Witness ==
    prog = "promisified" /\ pin.arg < 0 /\ PFinished /\ PCount("main.catch") = 1

\* the output the event-loop example documents
EventLoopOutput ==
    <<Ev("Start", 0), Ev("End", 0), Ev("Promise callback", 0), Ev("Timeout callback", 0)>>

\* C19: the event-loop example always prints Start, End, Promise callback,
\* Timeout callback: the synchronous statements first, then the microtask,
\* then the timer callback with delay 0 that was scheduled before it.
C19_EventLoopOrder ==
    prog = "eventLoop" =>
        /\ IsPrefix(plog, EventLoopOutput)
        /\ ppc = "script" => PCount("Promise callback") + PCount("Timeout callback") = 0
        /\ PFinished => plog = EventLoopOutput

C19_Witness == prog = "eventLoop" /\ PFinished /\ Len(plog) = 4

\* the output of the nested-callback pipeline when every stage succeeds
PipelineOutput ==
    <<Ev("Data fetched", 0), Ev("Processing data", RawData),
      Ev("Data saved", ProcessedData), Ev("Operation result", SuccessResult)>>

AllStagesSucceed == \A i \in Stages : pin.out[i] = "ok"

\* C18: when all stages succeed, the nested-callback, promise-chain and
\* async/await pipelines print the same events in the same order at the same
\* times (fetched, processing, saved, logResult with "Success"), each stage
\* starting only after the previous one has finished; in every version, and
\* whatever stage fails, logResult runs at most once.
C18_PipelinesAgree ==
    prog \in Pipelines =>
        /\ PCount("Operation result") <= 1
        /\ Len(ptimers) <= 1
        /\ AllStagesSucceed =>
              /\ IsPrefix(plog, PipelineOutput)
              /\ ptimers # <<>> => ptimers[1].due = (Len(plog) + 1) * PipelineDelay
              /\ pnow = (Len(plog) - PCount("Operation result")) * PipelineDelay
              /\ PFinished => plog = PipelineOutput /\ pnow = 3 * PipelineDelay

C18_Witness ==
    prog = "asyncAwait" /\ AllStagesSucceed /\ PFinished /\ plog = PipelineOutput

\* the input promises that reject, and the one that rejects first: the
\* earliest timer, the earliest created among equals
Rejecting == {i \in Elements : pin.out[i] = "err"}
FirstRejecting ==
    CHOOSE i \in Rejecting :
        \A j \in Rejecting :
            pin.lat[i] < pin.lat[j] \/ (pin.lat[i] = pin.lat[j] /\ i <= j)

\* what Promise.all and the handlers of the example have received
AllOutcome ==
    LET a == proms["ALL"] IN
    /\ a.settles <= 1
    /\ Len(pcalls) <= 1
    /\ PFinished => a.settles = 1 /\ Len(pcalls) = 1
    /\ a.state = "fulfilled" =>
          /\ Rejecting = {}
          /\ a.value = [i \in Elements |-> ElementValue(i)]
          /\ \A i \in Elements : proms[ElementName(i)].state = "fulfilled"
    /\ a.state = "rejected" =>
          /\ Rejecting # {}
          /\ a.value = ElementError(FirstRejecting)
          /\ pnow >= pin.lat[FirstRejecting]
    /\ (Rejecting # {} /\ pnow > pin.lat[FirstRejecting]) => a.state = "rejected"
    /\ pcalls # <<>> =>
          /\ Rejecting = {} =>
                /\ pcalls[1].error = Null
                /\ pcalls[1].result = [i \in Elements |-> ElementValue(i)]
          /\ Rejecting # {} =>
                /\ pcalls[1].error = ElementError(FirstRejecting)
                /\ pcalls[1].at = pin.lat[FirstRejecting]

\* once Promise.all has settled, no later input promise changes its result
AllSettledForGood ==
    [][(prog = "promiseAll" /\ proms["ALL"].state # "pending") =>
          /\ proms'["ALL"].state = proms["ALL"].state
          /\ proms'["ALL"].value = proms["ALL"].value]_vars

\* C20: Promise.all fulfils, when all input promises fulfil, with their values
\* in input order whatever the order in which they settle; it rejects with
\* the reason of the first promise that rejects, at the time of that
\* rejection; after it has rejected no later promise changes the outcome or
\* reaches a handler.
C20_PromiseAll ==
    /\ [](prog = "promiseAll" => AllOutcome)
    /\ AllSettledForGood

\* Promise.all has rejected while another input promise is still pending
C20_Witness ==
    /\ prog = "promiseAll"
    /\ pcalls # <<>>
    /\ Truthy(pcalls[1].error)
    /\ ptimers # <<>>

----------------------------------------------------------------------------
(* Claims about failures, event orders and the counter *)

\* the tasks whose completion callback has run with an error
FailedSoFar == {i \in Completed : outcome[i] = "err"}

\* the tasks whose completion callback has run with a value
SucceededSoFar == {i \in Completed : outcome[i] = "ok"}

\* every task started by a parallel Run is either still pending or has
\* invoked its completion callback, and the successful completions have been
\* collected, whether or not an error was reported before
NothingCancelled ==
    (mode = "parallel" /\ pc = "idle") =>
        /\ InFlight \cup Completed = Tasks
        /\ InFlight \cap Completed = {}
        /\ completedTasks = Cardinality(SucceededSoFar)

\* C21: a failure in parallel mode cancels nothing: after the final
\* continuation has been invoked with an error, every other started task
\* still runs to completion and still invokes its completion callback.
C21_NothingCancelled ==
    /\ []NothingCancelled
    /\ (mode = "parallel" /\ ErrorCalls # {}) ~> (Completed = Tasks /\ timers = <<>>)

\* the first completion failed, and the two later ones were still processed
C21_Witness ==
    /\ mode = "parallel"
    /\ Finished
    /\ Completed = Tasks
    /\ Truthy(calls[1].error)
    /\ calls[1].at < now
    /\ completedTasks = 2

\* the output the sequential callback example documents
SequentialOutput ==
    <<Ev("Fetching data...", 0), Ev("Data fetched", RawData),
      Ev("Processing data...", 0), Ev("Data processed", ProcessedData),
      Ev("Saving data...", 0), Ev("Data saved", ProcessedData),
      Ev("All tasks completed.", 0)>>

\* C23: in the sequential callback example each task is started exactly
\* once, in the order fetchData, processData, saveData, each after the
\* previous one has completed, and "All tasks completed." is printed exactly
\* once, last, after saveData has completed at time 3000.
C23_SequentialOrder ==
    prog = "sequentialCb" =>
        /\ IsPrefix(plog, SequentialOutput)
        /\ Len(ptimers) <= 1
        /\ PCount("Fetching data...") <= 1
        /\ PCount("Processing data...") <= 1
        /\ PCount("Saving data...") <= 1
        /\ PCount("All tasks completed.") <= 1
        /\ PCount("All tasks completed.") = 1 =>
              /\ plog = SequentialOutput
              /\ ptimers = <<>>
              /\ pnow = 3 * SequentialDelay
        /\ PFinished => plog = SequentialOutput

C23_Witness ==
    prog = "sequentialCb" /\ PFinished /\ PCount("All tasks completed.") = 1

----------------------------------------------------------------------------
(* The callback examples side by side: the parallel example, the nested    *)
(* chain and the promise-era examples, each run from its own script        *)

InitExamples == Init \/ InitProm

NextExamples == Next \/ NextProm

SpecExamples == InitExamples /\ [][NextExamples]_vars

\* the number of times the timer callback of task i has run
CompleteCount(i) == Cardinality({k \in DOMAIN log : log[k] = Ev("complete", i)})

\* the tasks of the parallel example and of the nested chain: the callback of
\* a task runs at most once, after the task was started and the script has
\* returned, and once for every started task when no timer is left
CoreTasksCallOnce ==
    pc # "off" =>
        /\ \A i \in Tasks :
              /\ CompleteCount(i) <= 1
              /\ i \in Completed => (i \in Started /\ Pos("start", i) < Pos("complete", i))
        /\ Completed # {} => pc = "idle"
        /\ mode = "parallel" =>
              completedTasks + Cardinality(ErrorCalls) = Cardinality(Completed)
        /\ Finished => \A i \in Started : CompleteCount(i) = 1

\* the tasks of the sequential callback example
SeqTasksCallOnce ==
    prog = "sequentialCb" =>
        /\ PCount("Data fetched") <= PCount("Fetching data...")
        /\ PCount("Data processed") <= PCount("Processing data...")
        /\ PCount("Data saved") <= PCount("Saving data...")
        /\ PCount("Fetching data...") <= 1
        /\ PCount("Processing data...") <= 1
        /\ PCount("Saving data...") <= 1
        /\ Len(pcalls) = PCount("Data fetched") + PCount("Data processed") + PCount("Data saved")
        /\ pcalls # <<>> => ppc = "idle"
        /\ PFinished => Len(pcalls) = 3

\* a callback is invoked only by a timer that an earlier step has set: the
\* call that started the task has returned
NeverSynchronously ==
    [][/\ Completed' \subseteq Started
       /\ Completed' # Completed => (pc = "idle" /\ timers # <<>>)
       /\ (prog = "sequentialCb" /\ pcalls' # pcalls) =>
             /\ ppc = "idle"
             /\ ptimers # <<>>
             /\ Len(pcalls') = Len(pcalls) + 1
             /\ pcalls'[Len(pcalls')].at = ptimers[NextTimer(ptimers)].due]_vars

\* C22: every task of the examples (fetchData, fetchMoreData, processData,
\* saveData) invokes the completion callback it was given exactly once, and
\* only after the call that started the task has returned.
C22_TasksCallOnce ==
    /\ [](CoreTasksCallOnce /\ SeqTasksCallOnce)
    /\ NeverSynchronously

C22_Witness ==
    /\ prog = "sequentialCb"
    /\ PFinished
    /\ Len(pcalls) = 3
    /\ pcalls[3].argc = 0

----------------------------------------------------------------------------
(* Claims about the parallel example and runTasksInParallel *)

\* the events the parallel example prints, in the documented order
ParallelOutput ==
    <<Ev("start", 1), Ev("start", 2), Ev("start", 3),
      Ev("complete", 2), Ev("complete", 1), Ev("complete", 3),
      Ev("AllTasksCompleted", 0), Ev("finalResults", 0)>>

\* C24: in the parallel example (latencies 1000, 500, 1500, no failure) the
\* events are the three starts in the order 1, 2, 3, the completions in the
\* order 2, 1, 3, then "All tasks completed", then the final callback, which
\* runs within the processing of the completion of task 3.
C24_ParallelOrder ==
    (mode = "parallel" /\ C15_Scenario) =>
        /\ IsPrefix(log, ParallelOutput)
        /\ pc = "script" => Completed = {}
        /\ Pos("complete", 3) # 0 =>
              /\ log = ParallelOutput
              /\ calls = <<Call(Null, 2, results, ProcessDataDelay)>>
              /\ now = ProcessDataDelay
        /\ Pos("complete", 3) = 0 => calls = <<>>
        /\ Finished => log = ParallelOutput

C24_Witness ==
    /\ mode = "parallel"
    /\ C15_Scenario
    /\ Finished
    /\ Len(log) = 8
    /\ Len(calls) = 1

----------------------------------------------------------------------------
(* Claims about error handling in await chains and nested callbacks *)

\* the steps of processSteps whose promise has been created
StepsStarted ==
    {i \in Steps : \/ proms[StepName(i)].state # "pending"
                   \/ proms[StepName(i)].waiter # "none"
                   \/ \E k \in DOMAIN ptimers :
                         ptimers[k].cb = "stepTimer" /\ ptimers[k].arg = i}

\* C25: in processSteps, where step 2 rejects, step 3 is never started,
\* neither console.log(step2) nor console.log(step3) runs, and the catch block
\* runs exactly once, with the rejection reason of step 2.
C25_CatchOnce ==
    prog = "processSteps" =>
        /\ 3 \notin StepsStarted
        /\ PCount("step2") = 0
        /\ PCount("step3") = 0
        /\ PCount("catch") <= 1
        /\ PCount("catch") = 1 =>
              /\ proms["S2"].state = "rejected"
              /\ plog = <<Ev("step1", StepCompleted(1)), Ev("catch", proms["S2"].value)>>
              /\ proms["S2"].value = Step2Failed
              /\ pnow = StepDelay(1) + StepDelay(2)
        /\ PFinished => PCount("catch") = 1

C25_Witness ==
    /\ prog = "processSteps"
    /\ PFinished
    /\ proms["S2"].state = "rejected"
    /\ PCount("catch") = 1

\* the stages that report an error, and the first of them
FailingStages == {i \in Stages : pin.out[i] = "err"}
FirstFailingStage == CHOOSE f \in FailingStages : \A g \in FailingStages : f <= g

\* the stage a timer callback belongs to
StageOf(cb) == CASE cb = "fetchTimer" -> 1 [] cb = "processTimer" -> 2 [] cb = "saveTimer" -> 3

\* what stage i prints when it succeeds, and what the chain prints when the
\* stage reports an error
StageLog(i) == CASE i = 1 -> "Data fetched" [] i = 2 -> "Processing data" [] i = 3 -> "Data saved"
StageErrorLog(i) ==
    CASE i = 1 -> "Error fetching data" [] i = 2 -> "Error processing data"
      [] i = 3 -> "Error saving data"

\* the number of error messages printed
ErrorMessages == PCount(StageErrorLog(1)) + PCount(StageErrorLog(2)) + PCount(StageErrorLog(3))

\* C26: in the nested-callback pipeline an error reported by a stage stops the
\* chain at that stage: no later stage is started, logResult is never called,
\* and exactly one error message, that of the stage, is printed.
C26_ErrorStopsChain ==
    (prog = "nested" /\ FailingStages # {}) =>
        LET f == FirstFailingStage IN
        /\ \A k \in DOMAIN ptimers : StageOf(ptimers[k].cb) <= f
        /\ \A j \in Stages : j >= f => PCount(StageLog(j)) = 0
        /\ \A j \in Stages : j # f => PCount(StageErrorLog(j)) = 0
        /\ PCount("Operation result") = 0
        /\ ErrorMessages <= 1
        /\ ErrorMessages = 1 =>
              /\ ptimers = <<>>
              /\ plog[Len(plog)] = Ev(StageErrorLog(f), StageError(f))
              /\ Len(plog) = f
              /\ pnow = f * PipelineDelay
        /\ PFinished => ErrorMessages = 1

C26_Witness ==
    /\ prog = "nested"
    /\ FailingStages = {2, 3}
    /\ PFinished
    /\ ErrorMessages = 1

\* the outcome of the task whose completion the event loop processes next
NextFails == outcome[timers[NextTimer(timers)].task] = "err"

\* a failing completion changes neither the counter nor the results, and a
\* successful one adds one to the counter and one element to the results
CounterSteps ==
    [][(mode = "parallel" /\ pc = "idle" /\ timers # <<>>) =>
          IF NextFails
          THEN completedTasks' = completedTasks /\ results' = results
          ELSE /\ completedTasks' = completedTasks + 1
               /\ Len(results') = Len(results) + 1]_vars

\* C27: in runTasksInParallel completedTasks always equals the length of
\* results and never exceeds totalTasks, each task invoking onTaskComplete
\* once; a failing completion leaves completedTasks and results unchanged.
C27_CounterMatchesResults ==
    /\ [](mode = "parallel" =>
            /\ completedTasks = Len(results)
            /\ completedTasks <= totalTasks
            /\ completedTasks = Cardinality(SucceededSoFar))
    /\ CounterSteps

\* a failing completion was processed after a successful one
C27_Witness ==
    /\ mode = "parallel"
    /\ completedTasks = 1
    /\ Cardinality(FailedSoFar) = 1
    /\ calls # <<>>
    /\ calls[Len(calls)].at = now
    /\ now > FetchMoreDataDelay

\* the values passed to the completion callbacks so far, in completion order
RECURSIVE CompletionOrder(_)
CompletionOrder(l) ==
    IF l = <<>> THEN <<>>
    ELSE LET e == l[Len(l)]
             front == CompletionOrder(SubSeq(l, 1, Len(l) - 1))
         IN IF e.ev = "complete" /\ outcome[e.task] = "ok"
            THEN Append(front, TaskResult(e.task))
            ELSE front

\* the tasks have completed in input order
CompletedInInputOrder ==
    \A i, j \in Completed : i < j => Pos("complete", i) < Pos("complete", j)

C30_NoSuccessAfterFailure ==
    (mode = "parallel" /\ Failing # {}) =>
        /\ SuccessCalls = {}
        /\ completedTasks < totalTasks
        /\ completedTasks <= totalTasks - Cardinality(Failing)
        /\ Pos("AllTasksCompleted", 0) = 0
        /\ Pos("finalResults", 0) = 0

\* the only failing task completed first and the two others succeeded later
C30_Witness ==
    /\ mode = "parallel"
    /\ Cardinality(Failing) = 1
    /\ Finished
    /\ completedTasks = totalTasks - 1
    /\ Len(calls) = 1
    /\ calls[1].at < now

====
